---- MODULE Spec2Model ----
(***************************************************************************)
(* Suggestion lifecycle and metrics reconciliation of the operator console *)
(* (frontend/src/App.jsx).  The component's React state is the state of    *)
(* the model; every event handler, and every continuation of an async      *)
(* handler after an await, is one atomic action (JavaScript runs each to   *)
(* completion on a single thread).  Requests in flight are kept with the   *)
(* values their closures captured when the handler was called.             *)
(* alert() blocks the thread, so the handler that calls it still runs to   *)
(* completion before anything else does.                                   *)
(***************************************************************************)
EXTENDS Integers, Sequences, FiniteSets, TLC

\* ------------------------------------------------------------------ bounds
MaxCalls == 3   \* suggest clicks, accept clicks and timer callbacks in one run

\* --------------------------------------------------------- program values
MinMinutes == 5            \* Math.round(5 + Math.random() * 55)
MinutesSpan == 55
NoTicket == 0              \* useState(null) for selectedTicket

Tickets == {1, 2}          \* ticket_id of the tickets GET /tickets returns

Null == [isNull |-> TRUE]  \* useState(null) for suggestion

Bare(l) == [shape |-> "bare", label |-> l]        \* tag sent as "billing"
Labeled(l) == [shape |-> "labeled", label |-> l]  \* tag sent as {tag: "bug"}

\* res.data of POST /suggest
SuggestData ==
  { [suggestion |-> "reply A", tags |-> << Bare("billing") >>],
    [suggestion |-> "reply B", tags |-> << Labeled("bug"), Bare("ui") >>] }

\* texts typed in the textarea
DraftTexts == { "new text" }

\* values of Math.random(), a fraction num/den in [0, 1)
RandomSamples == { [num |-> 0, den |-> 1], [num |-> 109, den |-> 110] }

TagCountsA == << [tag |-> "billing", count |-> 5], [tag |-> "bug", count |-> 5],
                 [tag |-> "ui", count |-> 2] >>
TagCountsB == << [tag |-> "bug", count |-> 1] >>

\* res.data of GET /metrics; a field the body lacks has its has-flag FALSE
MetricsData ==
  { [hasAccepted |-> TRUE, suggestions_accepted |-> 3,
     hasTagCounts |-> TRUE, tag_counts |-> TagCountsA],
    [hasAccepted |-> TRUE, suggestions_accepted |-> 1,
     hasTagCounts |-> TRUE, tag_counts |-> TagCountsB],
    [hasAccepted |-> FALSE, suggestions_accepted |-> 0,
     hasTagCounts |-> FALSE, tag_counts |-> << >>] }

\* tag_counts whose keys include a canonical array index: Object.entries
\* lists such keys first, in ascending numeric order, whatever the order of
\* the keys in the response
TagCountsIndexed == << [tag |-> "billing", count |-> 5], [tag |-> "404", count |-> 5] >>

\* tag_counts with more tags than the dashboard lists
TagCountsMany ==
  << [tag |-> "login", count |-> 1], [tag |-> "billing", count |-> 4],
     [tag |-> "bug", count |-> 4], [tag |-> "ui", count |-> 2],
     [tag |-> "refund", count |-> 6], [tag |-> "shipping", count |-> 3] >>

\* the keys of the samples that are canonical array indices, with their values
ArrayIndexKeys == [tag \in {"404"} |-> 404]

\* snapshots the dashboard is derived from
ShownSamples == {0, 10, 40}
AcceptedSamples == {0, 3}
TagCountSamples == {<< >>, TagCountsA, TagCountsMany}
DurationSamples == {5, 6, 60}
DurationListSamples ==
  {<< >>} \cup {<< d >> : d \in DurationSamples}
          \cup {<< d, e >> : d, e \in DurationSamples}
          \cup {<< 5, 60, 33 >>}

\* res.data of GET /metrics after a longer session
DashboardData ==
  MetricsData \cup
    { [hasAccepted |-> TRUE, suggestions_accepted |-> 23,
       hasTagCounts |-> TRUE, tag_counts |-> TagCountsIndexed] }

\* slice(0, 5) in topTags
TopN == 5

NoAlert == ""
SuggestAlert == "Error getting suggestion (see console)"
AcceptUnchangedAlert == "Failed to record accept. See console."
AcceptEditedAlert == "Failed to record edited accept. See console."

VARIABLES
  tickets,          \* tickets state: ids of the tickets loaded
  ticketsReq,       \* GET /tickets in flight
  selectedTicket,   \* ticket id or NoTicket
  suggestion,       \* Null or the payload of POST /suggest
  editedReply,      \* textarea content
  loading,          \* suggestion request pending flag
  metrics,          \* [suggestionsShown, suggestionsAccepted, tagCounts, responseTimes]
  suggestReqs,      \* POST /suggest in flight
  acceptReqs,       \* accept handlers suspended at an await, in order of the clicks
  pollReqs,         \* total_shown of the polled GET /metrics in flight
  intervalShown,    \* metrics.suggestionsShown captured by the interval's closure
  alert,            \* message of the alert() the last step raised, NoAlert if none
  origin,           \* history: the request that produced the stored suggestion
  calls,            \* history: number of handler calls counted by MaxCalls
  decisionsSent,    \* history: per suggestion request, decisions posted for its payload
  confirmedMinutes, \* history: response_time_min of the decisions whose POST succeeded
  mounted,          \* the App component is mounted
  armed,            \* the interval timer of the polling effect is armed
  timed,            \* this run measures time (it is fixed by the initial state)
  elapsed,          \* seconds since the interval timer was armed or last fired
  sincePoll,        \* history: seconds since mount or the last polled refresh
  lastRefresh       \* history: the last GET /metrics response that arrived

vars == << tickets, ticketsReq, selectedTicket, suggestion, editedReply, loading,
           metrics, suggestReqs, acceptReqs, pollReqs, intervalShown, alert,
           origin, calls, decisionsSent, confirmedMinutes, mounted, armed, timed,
           elapsed, sincePoll, lastRefresh >>

NoOrigin == [ep |-> 0, ticket |-> NoTicket]

\* setInterval(..., 8000): the period of the polling timer, in seconds
PollInterval == 8

\* lastRefresh before any GET /metrics response was applied
NoRefresh == [site |-> "none"]

\* A GET /metrics response is being applied: every other GET /metrics still in
\* flight has overlapped with it.
markOverlap(reqs) == [k \in 1..Len(reqs) |-> [reqs[k] EXCEPT !.overlap = TRUE]]

markOverlapGet(reqs) ==
  [k \in 1..Len(reqs) |->
     IF reqs[k].phase = "get" THEN [reqs[k] EXCEPT !.overlap = TRUE] ELSE reqs[k]]

\* the record kept of the GET /metrics response that arrives in the step: where
\* it was requested, its body, whether it was in flight when the response
\* before it arrived, the snapshot before and after it, and the site, body and
\* resulting snapshot of the response before it
refreshRecord(site, req, data, before, after) ==
  [site |-> site, data |-> data, overlap |-> req.overlap, before |-> before,
   after |-> after,
   prev |-> IF lastRefresh.site = "none" THEN NoRefresh
            ELSE [site |-> lastRefresh.site, data |-> lastRefresh.data,
                  after |-> lastRefresh.after]]

RemoveAt(s, i) == SubSeq(s, 1, i - 1) \o SubSeq(s, i + 1, Len(s))

\* Math.round(num / den) for num >= 0: halves round up
MathRound(num, den) == (2 * num + den) \div (2 * den)

\* ----------------------------------------------- arithmetic of JS numbers
\* The operators / and * of JavaScript work on IEEE-754 binary64 values and
\* round every result to the nearest value, ties to the even significand.
\* A positive double is written [limbs, exp]: it is N * 2^(exp - Precision),
\* where N = l3 * Limb^3 + l2 * Limb^2 + l1 * Limb + l0 for limbs
\* << l3, l2, l1, l0 >> has at most Precision significant binary digits.
Precision == 53

\* the significand is kept in four limbs of 15 binary digits, so that every
\* intermediate value stays below 2^31
Limb == 2^15

RECURSIVE normalizeQuotient(_, _, _)
\* scale n / d by a power of two into [1/2, 1): [n, d, exp] with
\* n / d * 2^exp the quotient asked for
normalizeQuotient(n, d, e) ==
  IF n >= d THEN normalizeQuotient(n, 2 * d, e + 1)
  ELSE IF 2 * n < d THEN normalizeQuotient(2 * n, d, e - 1)
  ELSE [n |-> n, d |-> d, exp |-> e]

\* the limbs of N + u, for a small u
plusUlp(l, u) ==
  LET s0 == l[4] + u
      s1 == l[3] + (s0 \div Limb)
      s2 == l[2] + (s1 \div Limb)
  IN << l[1] + (s2 \div Limb), s2 % Limb, s1 % Limb, s0 % Limb >>

\* floor(n * 2^Precision / d) in limbs and the remainder of that division,
\* for d / 2 <= n < d < 2^16: 2^Precision = 2^8 * Limb^3
scaledQuotient(n, d) ==
  LET t3 == n * 2^8
      t2 == (t3 % d) * Limb
      t1 == (t2 % d) * Limb
      t0 == (t1 % d) * Limb
  IN [limbs |-> << t3 \div d, t2 \div d, t1 \div d, t0 \div d >>, rest |-> t0 % d]

\* a / s in doubles, for integers a > 0 and s > 0: the quotient rounded to
\* Precision digits, to nearest, ties to even
doubleDivide(a, s) ==
  LET q == normalizeQuotient(a, s, 0)
      sq == scaledQuotient(q.n, q.d)
      up == \/ 2 * sq.rest > q.d
            \/ 2 * sq.rest = q.d /\ (sq.limbs[4] % 2) = 1
  IN [limbs |-> IF up THEN plusUlp(sq.limbs, 1) ELSE sq.limbs, exp |-> q.exp]

\* x * n in doubles, for a positive double x and a small integer n >= 1: the
\* exact product has up to 7 digits more than Precision and is rounded to
\* Precision digits, to nearest, ties to even
doubleTimes(x, n) ==
  LET v0 == x.limbs[4] * n
      v1 == (x.limbs[3] * n) + (v0 \div Limb)
      v2 == (x.limbs[2] * n) + (v1 \div Limb)
      v3 == (x.limbs[1] * n) + (v2 \div Limb)
      p0 == v0 % Limb
      width == CHOOSE k \in 0..15 : v3 < 2^k /\ (k > 0 => v3 >= 2^(k - 1))
      drop == 3 * 15 + width - Precision
      rest == IF drop > 0 THEN p0 % (2^drop) ELSE 0
      up == drop > 0 /\ \/ 2 * rest > 2^drop
                        \/ 2 * rest = 2^drop /\ ((p0 \div 2^drop) % 2) = 1
      kept == << v3, v2 % Limb, v1 % Limb, p0 - rest >>
  IN [limbs |-> IF up THEN plusUlp(kept, 2^drop) ELSE kept, exp |-> x.exp]

\* Math.round(x) for a positive double x below 2^22: the nearest integer,
\* halves upwards, that is the integer part plus the first binary digit after
\* the point
mathRoundDouble(x) ==
  LET high == (x.limbs[1] * Limb) + x.limbs[2]
      shift == Precision - 2 * 15 - x.exp
  IN IF shift > 30 THEN 0
     ELSE (high \div 2^shift) + ((high \div 2^(shift - 1)) % 2)

\* Math.round(5 + Math.random() * 55)
simulatedResponseMinutes(r) ==
  MathRound(MinMinutes * r.den + MinutesSpan * r.num, r.den)

\* mutant of applyServerMetrics: the object is built without ...prev, so the
\* fields the server does not send are lost
applyServerMetrics_NoSpread(prev, data) ==
  [suggestionsShown |-> 0,
   suggestionsAccepted |->
      IF data.hasAccepted THEN data.suggestions_accepted ELSE prev.suggestionsAccepted,
   tagCounts |-> IF data.hasTagCounts THEN data.tag_counts ELSE prev.tagCounts,
   responseTimes |-> << >>]

\* setMetrics(prev => ({...prev, suggestionsAccepted: ..., tagCounts: ...}))
applyServerMetrics(prev, data) ==
  [prev EXCEPT
     !.suggestionsAccepted =
        IF data.hasAccepted THEN data.suggestions_accepted ELSE prev.suggestionsAccepted,
     !.tagCounts =
        IF data.hasTagCounts THEN data.tag_counts ELSE prev.tagCounts]

\* mutant of incrementShown: the increment is left out
incrementShown_Lost(prev) == prev

\* setMetrics(prev => ({...prev, suggestionsShown: prev.suggestionsShown + 1}))
incrementShown(prev) ==
  [prev EXCEPT !.suggestionsShown = prev.suggestionsShown + 1]

\* mutant of appendResponseTime: the client also counts the acceptance itself
appendResponseTime_CountsAccepted(prev, m) ==
  [prev EXCEPT !.responseTimes = Append(prev.responseTimes, m),
               !.suggestionsAccepted = prev.suggestionsAccepted + 1]

\* setMetrics(prev => ({...prev, responseTimes: [...prev.responseTimes, m]}))
appendResponseTime(prev, m) ==
  [prev EXCEPT !.responseTimes = Append(prev.responseTimes, m)]

\* ------------------------------------------------------- derived values
\* const acceptanceRate = metrics.suggestionsShown === 0 ? 0
\*   : Math.round((Number(metrics.suggestionsAccepted || 0) / metrics.suggestionsShown) * 100)
acceptanceRateOf(m) ==
  IF m.suggestionsShown = 0 THEN 0
  ELSE IF m.suggestionsAccepted = 0 THEN 0
  ELSE mathRoundDouble(
         doubleTimes(doubleDivide(m.suggestionsAccepted, m.suggestionsShown), 100))

acceptanceRate == acceptanceRateOf(metrics)

RECURSIVE sumOf(_)
\* responseTimes.reduce((a, b) => a + b, 0)
sumOf(list) == IF list = << >> THEN 0 ELSE list[1] + sumOf(Tail(list))

\* mutant of avgResponseTimeOf: Math.floor in place of Math.round
avgResponseTimeOf_Floor(m) ==
  IF Len(m.responseTimes) = 0 THEN 0
  ELSE sumOf(m.responseTimes) \div Len(m.responseTimes)

\* const avgResponseTime = metrics.responseTimes.length
\*   ? Math.round(sum / metrics.responseTimes.length) : 0
avgResponseTimeOf(m) ==
  IF Len(m.responseTimes) = 0 THEN 0
  ELSE mathRoundDouble(doubleDivide(sumOf(m.responseTimes), Len(m.responseTimes)))

avgResponseTime == avgResponseTimeOf(metrics)

\* Object.entries(tagCounts): the keys that are array indices in ascending
\* numeric order, then the other keys in the order of their insertion, which
\* for a parsed response is the order of the keys in the body
objectEntries(tc) ==
  LET isIndex(i) == tc[i].tag \in DOMAIN ArrayIndexKeys
      before(i, j) ==
        IF isIndex(i) /\ isIndex(j)
        THEN ArrayIndexKeys[tc[i].tag] < ArrayIndexKeys[tc[j].tag]
        ELSE IF isIndex(i) # isIndex(j) THEN isIndex(i)
        ELSE i < j
      place(i) == 1 + Cardinality({j \in 1..Len(tc) : before(j, i)})
  IN [p \in 1..Len(tc) |-> tc[CHOOSE i \in 1..Len(tc) : place(i) = p]]

\* entries.sort((a, b) => b[1] - a[1]): descending by count; the sort is
\* stable, so entries of equal count keep their order
sortByCount(entries) ==
  LET place(i) == 1 + Cardinality({j \in 1..Len(entries) :
                        \/ entries[j].count > entries[i].count
                        \/ entries[j].count = entries[i].count /\ j < i})
  IN [p \in 1..Len(entries) |-> entries[CHOOSE i \in 1..Len(entries) : place(i) = p]]

\* list.slice(0, n)
slice(list, n) == SubSeq(list, 1, IF Len(list) < n THEN Len(list) ELSE n)

\* const topTags = Object.entries(metrics.tagCounts || {}).sort(...).slice(0, 5)
\*   .map(([tag, count]) => `${tag} (${count})`).join(", ")
\* The string is kept as the sequence of its items, an item "tag (count)" as
\* the record of its tag and count.
topTagsOf(m) ==
  slice(sortByCount(objectEntries(m.tagCounts)), TopN)

topTags == topTagsOf(metrics)

Init ==
  /\ tickets = {}
  /\ ticketsReq = TRUE
  /\ selectedTicket = NoTicket
  /\ suggestion = Null
  /\ editedReply = ""
  /\ loading = FALSE
  /\ metrics = [suggestionsShown |-> 0, suggestionsAccepted |-> 0,
                tagCounts |-> << >>, responseTimes |-> << >>]
  /\ suggestReqs = {}
  /\ acceptReqs = << >>
  /\ pollReqs = << >>
  /\ intervalShown = 0
  /\ alert = NoAlert
  /\ origin = NoOrigin
  /\ calls = 0
  /\ decisionsSent = [e \in 1..MaxCalls |-> 0]
  /\ confirmedMinutes = << >>
  /\ mounted = TRUE
  /\ armed = TRUE
  /\ timed = FALSE
  /\ elapsed = 0
  /\ sincePoll = 0
  /\ lastRefresh = NoRefresh

\* ------------------------------------------------------------ ticket list
\* GET /tickets resolved: setTickets(res.data)
loadTicketsOk ==
  /\ mounted
  /\ ticketsReq
  /\ ticketsReq' = FALSE
  /\ tickets' = Tickets
  /\ alert' = NoAlert
  /\ UNCHANGED << selectedTicket, suggestion, editedReply, loading, metrics,
                  suggestReqs, acceptReqs, pollReqs, intervalShown, origin, calls,
                  decisionsSent, confirmedMinutes, mounted, armed, timed, elapsed,
                  sincePoll, lastRefresh >>

\* GET /tickets rejected: console.error only
loadTicketsFail ==
  /\ mounted
  /\ ticketsReq
  /\ ticketsReq' = FALSE
  /\ alert' = NoAlert
  /\ UNCHANGED << tickets, selectedTicket, suggestion, editedReply, loading, metrics,
                  suggestReqs, acceptReqs, pollReqs, intervalShown, origin, calls,
                  decisionsSent, confirmedMinutes, mounted, armed, timed, elapsed,
                  sincePoll, lastRefresh >>

\* onClick of a ticket: setSelectedTicket(t); setSuggestion(null); setEditedReply("")
\* mutant of selectTicket: the click also resets the loading flag
selectTicket_ResetsLoading(t) ==
  /\ mounted
  /\ t \in tickets
  /\ selectedTicket' = t
  /\ suggestion' = Null
  /\ editedReply' = ""
  /\ loading' = FALSE
  /\ origin' = NoOrigin
  /\ alert' = NoAlert
  /\ UNCHANGED << tickets, ticketsReq, metrics, suggestReqs, acceptReqs,
                  pollReqs, intervalShown, calls, decisionsSent, confirmedMinutes,
                  mounted, armed, timed, elapsed, sincePoll, lastRefresh >>

selectTicket(t) ==
  /\ mounted
  /\ t \in tickets
  /\ selectedTicket' = t
  /\ suggestion' = Null
  /\ editedReply' = ""
  /\ origin' = NoOrigin
  /\ alert' = NoAlert
  /\ UNCHANGED << tickets, ticketsReq, loading, metrics, suggestReqs, acceptReqs,
                  pollReqs, intervalShown, calls, decisionsSent, confirmedMinutes,
                  mounted, armed, timed, elapsed, sincePoll, lastRefresh >>

\* ------------------------------------------------------ suggestion request
\* mutant of handleSuggest: the suggestion and the draft are not cleared
handleSuggest_KeepsSuggestion ==
  /\ mounted
  /\ selectedTicket # NoTicket
  /\ ~loading
  /\ calls < MaxCalls
  /\ calls' = calls + 1
  /\ loading' = TRUE
  /\ suggestReqs' = suggestReqs \cup
       { [id |-> calls + 1, ticket_id |-> selectedTicket,
          shownAtIssue |-> metrics.suggestionsShown,
          fromReady |-> suggestion # Null] }
  /\ alert' = NoAlert
  /\ UNCHANGED << tickets, ticketsReq, selectedTicket, suggestion, editedReply,
                  metrics, acceptReqs, pollReqs, intervalShown, origin, decisionsSent,
                  confirmedMinutes, mounted, armed, timed, elapsed, sincePoll,
                  lastRefresh >>

\* mutant of handleSuggest: the button is not disabled while loading
handleSuggest_NotDisabled ==
  /\ mounted
  /\ selectedTicket # NoTicket
  /\ calls < MaxCalls
  /\ calls' = calls + 1
  /\ loading' = TRUE
  /\ suggestion' = Null
  /\ editedReply' = ""
  /\ origin' = NoOrigin
  /\ suggestReqs' = suggestReqs \cup
       { [id |-> calls + 1, ticket_id |-> selectedTicket,
          shownAtIssue |-> metrics.suggestionsShown,
          fromReady |-> suggestion # Null] }
  /\ alert' = NoAlert
  /\ UNCHANGED << tickets, ticketsReq, selectedTicket, metrics, acceptReqs, pollReqs,
                  intervalShown, decisionsSent, confirmedMinutes, mounted, armed,
                  timed, elapsed, sincePoll, lastRefresh >>

\* click on "Suggest response" (rendered when a ticket is selected, disabled
\* while loading), up to the await of POST /suggest
handleSuggest ==
  /\ mounted
  /\ selectedTicket # NoTicket
  /\ ~loading
  /\ calls < MaxCalls
  /\ calls' = calls + 1
  /\ loading' = TRUE
  /\ suggestion' = Null
  /\ editedReply' = ""
  /\ origin' = NoOrigin
  /\ suggestReqs' = suggestReqs \cup
       { [id |-> calls + 1, ticket_id |-> selectedTicket,
          shownAtIssue |-> metrics.suggestionsShown,
          fromReady |-> suggestion # Null] }
  /\ alert' = NoAlert
  /\ UNCHANGED << tickets, ticketsReq, selectedTicket, metrics, acceptReqs, pollReqs,
                  intervalShown, decisionsSent, confirmedMinutes, mounted, armed,
                  timed, elapsed, sincePoll, lastRefresh >>

\* POST /suggest resolved with a payload: the try block and finally.  The
\* change of suggestionsShown re-runs the polling effect, which clears the
\* interval and arms a new one whose closure holds the new count.
suggestOk(req, data) ==
  /\ mounted
  /\ req \in suggestReqs
  /\ suggestReqs' = suggestReqs \ {req}
  /\ suggestion' = data
  /\ editedReply' = data.suggestion
  /\ origin' = [ep |-> req.id, ticket |-> req.ticket_id]
  /\ metrics' = incrementShown(metrics)
  /\ loading' = FALSE
  /\ intervalShown' = metrics'.suggestionsShown
  /\ elapsed' = 0
  /\ alert' = NoAlert
  /\ UNCHANGED << tickets, ticketsReq, selectedTicket, acceptReqs, pollReqs, calls,
                  decisionsSent, confirmedMinutes, mounted, armed, timed, sincePoll,
                  lastRefresh >>

\* POST /suggest resolved with an empty body: payload = res.data || null
suggestOkEmpty(req) ==
  /\ mounted
  /\ req \in suggestReqs
  /\ suggestReqs' = suggestReqs \ {req}
  /\ suggestion' = Null
  /\ editedReply' = ""
  /\ origin' = NoOrigin
  /\ metrics' = incrementShown(metrics)
  /\ loading' = FALSE
  /\ intervalShown' = metrics'.suggestionsShown
  /\ elapsed' = 0
  /\ alert' = NoAlert
  /\ UNCHANGED << tickets, ticketsReq, selectedTicket, acceptReqs, pollReqs, calls,
                  decisionsSent, confirmedMinutes, mounted, armed, timed, sincePoll,
                  lastRefresh >>

\* POST /suggest rejected: catch and finally
\* mutant of suggestFail: no finally block, loading stays set on failure
suggestFail_NoFinally(req) ==
  /\ mounted
  /\ req \in suggestReqs
  /\ suggestReqs' = suggestReqs \ {req}
  /\ alert' = SuggestAlert
  /\ UNCHANGED << tickets, ticketsReq, selectedTicket, suggestion, editedReply,
                  loading, metrics, acceptReqs, pollReqs, intervalShown, origin,
                  calls, decisionsSent, confirmedMinutes, mounted, armed, timed,
                  elapsed, sincePoll, lastRefresh >>

suggestFail(req) ==
  /\ mounted
  /\ req \in suggestReqs
  /\ suggestReqs' = suggestReqs \ {req}
  /\ alert' = SuggestAlert
  /\ loading' = FALSE
  /\ UNCHANGED << tickets, ticketsReq, selectedTicket, suggestion, editedReply,
                  metrics, acceptReqs, pollReqs, intervalShown, origin, calls,
                  decisionsSent, confirmedMinutes, mounted, armed, timed, elapsed,
                  sincePoll, lastRefresh >>

\* textarea onChange (the textarea is rendered while a suggestion is held)
editDraft(text) ==
  /\ mounted
  /\ suggestion # Null
  /\ editedReply' = text
  /\ alert' = NoAlert
  /\ UNCHANGED << tickets, ticketsReq, selectedTicket, suggestion, loading, metrics,
                  suggestReqs, acceptReqs, pollReqs, intervalShown, origin, calls,
                  decisionsSent, confirmedMinutes, mounted, armed, timed, elapsed,
                  sincePoll, lastRefresh >>

\* ----------------------------------------------------------------- finalize
\* mutant of acceptCall: the payload's duration comes from a second call of
\* Math.random()
acceptCall_Resampled(actionType, finalText, r) ==
  /\ mounted
  /\ suggestion # Null
  /\ selectedTicket # NoTicket
  /\ calls < MaxCalls
  /\ calls' = calls + 1
  /\ \E r2 \in RandomSamples :
       LET minutes == simulatedResponseMinutes(r)
           payload == [ticket_id |-> selectedTicket,
                       action |-> actionType,
                       tags |-> suggestion.tags,
                       response_time_min |-> simulatedResponseMinutes(r2),
                       final_reply |-> finalText]
       IN acceptReqs' = Append(acceptReqs,
               [ep |-> origin.ep, payload |-> payload, minutes |-> minutes,
                shownAtCall |-> metrics.suggestionsShown, phase |-> "post",
                overlap |-> FALSE])
  /\ decisionsSent' = [decisionsSent EXCEPT ![origin.ep] = @ + 1]
  /\ alert' = NoAlert
  /\ UNCHANGED << tickets, ticketsReq, selectedTicket, suggestion, editedReply,
                  loading, metrics, suggestReqs, pollReqs, intervalShown, origin,
                  confirmedMinutes, mounted, armed, timed, elapsed, sincePoll,
                  lastRefresh >>

\* Body shared by the two accept handlers up to the await of POST /accept.
\* The buttons are rendered while a ticket is selected and a suggestion is
\* held; the handler's closure keeps simulatedResponseMinutes and the
\* metrics.suggestionsShown of the render it was created in.
acceptCall(actionType, finalText, r) ==
  /\ mounted
  /\ suggestion # Null
  /\ selectedTicket # NoTicket
  /\ calls < MaxCalls
  /\ calls' = calls + 1
  /\ LET minutes == simulatedResponseMinutes(r)
         payload == [ticket_id |-> selectedTicket,
                     action |-> actionType,
                     tags |-> suggestion.tags,
                     response_time_min |-> minutes,
                     final_reply |-> finalText]
     IN acceptReqs' = Append(acceptReqs,
             [ep |-> origin.ep, payload |-> payload, minutes |-> minutes,
              shownAtCall |-> metrics.suggestionsShown, phase |-> "post",
                overlap |-> FALSE])
  /\ decisionsSent' = [decisionsSent EXCEPT ![origin.ep] = @ + 1]
  /\ alert' = NoAlert
  /\ UNCHANGED << tickets, ticketsReq, selectedTicket, suggestion, editedReply,
                  loading, metrics, suggestReqs, pollReqs, intervalShown, origin,
                  confirmedMinutes, mounted, armed, timed, elapsed, sincePoll,
                  lastRefresh >>

handleAcceptUnchanged(r) ==
  /\ suggestion # Null
  /\ acceptCall("accepted", suggestion.suggestion, r)

\* mutant of handleAcceptEdited: the payload carries the suggested text, as in
\* handleAcceptUnchanged
handleAcceptEdited_SendsSuggestion(r) ==
  /\ suggestion # Null
  /\ acceptCall("edited", suggestion.suggestion, r)

handleAcceptEdited(r) ==
  acceptCall("edited", editedReply, r)

\* the message of the catch block of the handler that was called
acceptAlert(req) ==
  IF req.payload.action = "accepted" THEN AcceptUnchangedAlert ELSE AcceptEditedAlert

\* POST /accept resolved: append the duration, then await GET /metrics with
\* the suggestionsShown of the handler's closure
acceptPostOk(i) ==
  /\ mounted
  /\ i \in 1..Len(acceptReqs)
  /\ acceptReqs[i].phase = "post"
  /\ metrics' = appendResponseTime(metrics, acceptReqs[i].minutes)
  /\ confirmedMinutes' = Append(confirmedMinutes, acceptReqs[i].payload.response_time_min)
  /\ acceptReqs' = [acceptReqs EXCEPT ![i].phase = "get"]
  /\ alert' = NoAlert
  /\ UNCHANGED << tickets, ticketsReq, selectedTicket, suggestion, editedReply,
                  loading, suggestReqs, pollReqs, intervalShown, origin, calls,
                  decisionsSent, mounted, armed, timed, elapsed, sincePoll,
                  lastRefresh >>

\* mutant of acceptPostFail: the duration is appended although the send failed
acceptPostFail_Appends(i) ==
  /\ mounted
  /\ i \in 1..Len(acceptReqs)
  /\ acceptReqs[i].phase = "post"
  /\ metrics' = appendResponseTime(metrics, acceptReqs[i].minutes)
  /\ alert' = acceptAlert(acceptReqs[i])
  /\ acceptReqs' = RemoveAt(acceptReqs, i)
  /\ UNCHANGED << tickets, ticketsReq, selectedTicket, suggestion, editedReply,
                  loading, suggestReqs, pollReqs, intervalShown, origin, calls,
                  decisionsSent, confirmedMinutes, mounted, armed, timed, elapsed,
                  sincePoll, lastRefresh >>

\* POST /accept rejected: catch
acceptPostFail(i) ==
  /\ mounted
  /\ i \in 1..Len(acceptReqs)
  /\ acceptReqs[i].phase = "post"
  /\ alert' = acceptAlert(acceptReqs[i])
  /\ acceptReqs' = RemoveAt(acceptReqs, i)
  /\ UNCHANGED << tickets, ticketsReq, selectedTicket, suggestion, editedReply,
                  loading, metrics, suggestReqs, pollReqs, intervalShown, origin,
                  calls, decisionsSent, confirmedMinutes, mounted, armed, timed,
                  elapsed, sincePoll, lastRefresh >>

\* mutant of acceptGetOk: the handler adds its own acceptance to the count the
\* server reports
acceptGetOk_CountsOwnAccept(i, data) ==
  /\ mounted
  /\ i \in 1..Len(acceptReqs)
  /\ acceptReqs[i].phase = "get"
  /\ metrics' = [applyServerMetrics(metrics, data) EXCEPT !.suggestionsAccepted = @ + 1]
  /\ suggestion' = Null
  /\ editedReply' = ""
  /\ origin' = NoOrigin
  /\ acceptReqs' = markOverlapGet(RemoveAt(acceptReqs, i))
  /\ pollReqs' = markOverlap(pollReqs)
  /\ lastRefresh' = refreshRecord("accept", acceptReqs[i], data, metrics, metrics')
  /\ alert' = NoAlert
  /\ UNCHANGED << tickets, ticketsReq, selectedTicket, loading, suggestReqs,
                  intervalShown, calls, decisionsSent, confirmedMinutes, mounted,
                  armed, timed, elapsed, sincePoll >>

\* GET /metrics of the handler resolved: replace the server fields, then
\* setSuggestion(null); setEditedReply("")
acceptGetOk(i, data) ==
  /\ mounted
  /\ i \in 1..Len(acceptReqs)
  /\ acceptReqs[i].phase = "get"
  /\ metrics' = applyServerMetrics(metrics, data)
  /\ suggestion' = Null
  /\ editedReply' = ""
  /\ origin' = NoOrigin
  /\ acceptReqs' = markOverlapGet(RemoveAt(acceptReqs, i))
  /\ pollReqs' = markOverlap(pollReqs)
  /\ lastRefresh' = refreshRecord("accept", acceptReqs[i], data, metrics, metrics')
  /\ alert' = NoAlert
  /\ UNCHANGED << tickets, ticketsReq, selectedTicket, loading, suggestReqs,
                  intervalShown, calls, decisionsSent, confirmedMinutes, mounted,
                  armed, timed, elapsed, sincePoll >>

\* GET /metrics of the handler rejected: the same catch as for the send
acceptGetFail(i) ==
  /\ mounted
  /\ i \in 1..Len(acceptReqs)
  /\ acceptReqs[i].phase = "get"
  /\ alert' = acceptAlert(acceptReqs[i])
  /\ acceptReqs' = RemoveAt(acceptReqs, i)
  /\ UNCHANGED << tickets, ticketsReq, selectedTicket, suggestion, editedReply,
                  loading, metrics, suggestReqs, pollReqs, intervalShown, origin,
                  calls, decisionsSent, confirmedMinutes, mounted, armed, timed,
                  elapsed, sincePoll, lastRefresh >>

\* ------------------------------------------------------------------ polling
\* The interval's callback up to the await of GET /metrics.  It runs while the
\* timer is armed: when the period has elapsed in a run that measures time, at
\* any moment in a run that does not.
pollFire ==
  /\ armed
  /\ timed => elapsed = PollInterval
  /\ calls < MaxCalls
  /\ calls' = calls + 1
  /\ pollReqs' = Append(pollReqs, [total_shown |-> intervalShown, overlap |-> FALSE])
  /\ elapsed' = 0
  /\ sincePoll' = 0
  /\ alert' = NoAlert
  /\ UNCHANGED << tickets, ticketsReq, selectedTicket, suggestion, editedReply,
                  loading, metrics, suggestReqs, acceptReqs, intervalShown, origin,
                  decisionsSent, confirmedMinutes, mounted, armed, timed, lastRefresh >>

\* mutant of pollOk: a polled response that another response has overtaken is
\* dropped instead of applied
pollOk_DropsOvertaken(i, data) ==
  /\ mounted
  /\ i \in 1..Len(pollReqs)
  /\ pollReqs' = markOverlap(RemoveAt(pollReqs, i))
  /\ acceptReqs' = markOverlapGet(acceptReqs)
  /\ metrics' = IF pollReqs[i].overlap THEN metrics ELSE applyServerMetrics(metrics, data)
  /\ lastRefresh' = refreshRecord("poll", pollReqs[i], data, metrics, metrics')
  /\ alert' = NoAlert
  /\ UNCHANGED << tickets, ticketsReq, selectedTicket, suggestion, editedReply,
                  loading, suggestReqs, intervalShown, origin, calls, decisionsSent,
                  confirmedMinutes, mounted, armed, timed, elapsed, sincePoll >>

\* polled GET /metrics resolved
pollOk(i, data) ==
  /\ mounted
  /\ i \in 1..Len(pollReqs)
  /\ pollReqs' = markOverlap(RemoveAt(pollReqs, i))
  /\ acceptReqs' = markOverlapGet(acceptReqs)
  /\ metrics' = applyServerMetrics(metrics, data)
  /\ lastRefresh' = refreshRecord("poll", pollReqs[i], data, metrics, metrics')
  /\ alert' = NoAlert
  /\ UNCHANGED << tickets, ticketsReq, selectedTicket, suggestion, editedReply,
                  loading, suggestReqs, intervalShown, origin, calls, decisionsSent,
                  confirmedMinutes, mounted, armed, timed, elapsed, sincePoll >>

\* polled GET /metrics rejected: catch, silent
pollFail(i) ==
  /\ mounted
  /\ i \in 1..Len(pollReqs)
  /\ pollReqs' = RemoveAt(pollReqs, i)
  /\ alert' = NoAlert
  /\ UNCHANGED << tickets, ticketsReq, selectedTicket, suggestion, editedReply,
                  loading, metrics, suggestReqs, acceptReqs, intervalShown, origin,
                  calls, decisionsSent, confirmedMinutes, mounted, armed, timed,
                  elapsed, sincePoll, lastRefresh >>

\* --------------------------------------------------------- time and unmount
\* One second passes.  The armed timer's callback runs when its period has
\* elapsed, so time does not pass beyond that moment before pollFire.
tick ==
  /\ timed
  /\ armed => elapsed < PollInterval
  /\ elapsed' = IF armed THEN elapsed + 1 ELSE elapsed
  /\ sincePoll' = IF sincePoll > PollInterval THEN sincePoll ELSE sincePoll + 1
  /\ alert' = NoAlert
  /\ UNCHANGED << tickets, ticketsReq, selectedTicket, suggestion, editedReply,
                  loading, metrics, suggestReqs, acceptReqs, pollReqs, intervalShown,
                  origin, calls, decisionsSent, confirmedMinutes, mounted, armed,
                  timed, lastRefresh >>

\* mutant of Unmount: the effect returns no cleanup, the interval stays armed
Unmount_NoCleanup ==
  /\ mounted
  /\ mounted' = FALSE
  /\ alert' = NoAlert
  /\ UNCHANGED << tickets, ticketsReq, selectedTicket, suggestion, editedReply,
                  loading, metrics, suggestReqs, acceptReqs, pollReqs, intervalShown,
                  origin, calls, decisionsSent, confirmedMinutes, armed, timed,
                  elapsed, sincePoll, lastRefresh >>

\* The component is unmounted: React runs the effect's cleanup,
\* () => clearInterval(id).
Unmount ==
  /\ mounted
  /\ mounted' = FALSE
  /\ armed' = FALSE
  /\ alert' = NoAlert
  /\ UNCHANGED << tickets, ticketsReq, selectedTicket, suggestion, editedReply,
                  loading, metrics, suggestReqs, acceptReqs, pollReqs, intervalShown,
                  origin, calls, decisionsSent, confirmedMinutes, timed, elapsed,
                  sincePoll, lastRefresh >>

\* POST /suggest settles after the unmount: React drops the state updates of
\* an unmounted component, so no effect runs again and no timer is armed; the
\* alert of the catch block is still raised when the request was rejected.
suggestSettledUnmounted(req, ok) ==
  /\ ~mounted
  /\ req \in suggestReqs
  /\ suggestReqs' = suggestReqs \ {req}
  /\ alert' = IF ok THEN NoAlert ELSE SuggestAlert
  /\ UNCHANGED << tickets, ticketsReq, selectedTicket, suggestion, editedReply,
                  loading, metrics, acceptReqs, pollReqs, intervalShown, origin, calls,
                  decisionsSent, confirmedMinutes, mounted, armed, timed, elapsed,
                  sincePoll, lastRefresh >>

\* a polled GET /metrics settles after the unmount: setMetrics is dropped
pollSettledUnmounted(i) ==
  /\ ~mounted
  /\ i \in 1..Len(pollReqs)
  /\ pollReqs' = RemoveAt(pollReqs, i)
  /\ alert' = NoAlert
  /\ UNCHANGED << tickets, ticketsReq, selectedTicket, suggestion, editedReply,
                  loading, metrics, suggestReqs, acceptReqs, intervalShown, origin,
                  calls, decisionsSent, confirmedMinutes, mounted, armed, timed,
                  elapsed, sincePoll, lastRefresh >>

Next ==
  \/ loadTicketsOk
  \/ loadTicketsFail
  \/ \E t \in Tickets : selectTicket(t)
  \/ handleSuggest
  \/ \E req \in suggestReqs : \E data \in SuggestData : suggestOk(req, data)
  \/ \E req \in suggestReqs : suggestOkEmpty(req)
  \/ \E req \in suggestReqs : suggestFail(req)
  \/ \E text \in DraftTexts : editDraft(text)
  \/ \E r \in RandomSamples : handleAcceptUnchanged(r)
  \/ \E r \in RandomSamples : handleAcceptEdited(r)
  \/ \E i \in 1..Len(acceptReqs) : acceptPostOk(i)
  \/ \E i \in 1..Len(acceptReqs) : acceptPostFail(i)
  \/ \E i \in 1..Len(acceptReqs) : \E data \in MetricsData : acceptGetOk(i, data)
  \/ \E i \in 1..Len(acceptReqs) : acceptGetFail(i)
  \/ pollFire
  \/ \E i \in 1..Len(pollReqs) : \E data \in MetricsData : pollOk(i, data)
  \/ \E i \in 1..Len(pollReqs) : pollFail(i)

Spec == Init /\ [][Next]_vars

\* ------------------------------------------------- the polling timer in time
\* The same component in a run that measures time in seconds.
InitTimed ==
  /\ tickets = {}
  /\ ticketsReq = TRUE
  /\ selectedTicket = NoTicket
  /\ suggestion = Null
  /\ editedReply = ""
  /\ loading = FALSE
  /\ metrics = [suggestionsShown |-> 0, suggestionsAccepted |-> 0,
                tagCounts |-> << >>, responseTimes |-> << >>]
  /\ suggestReqs = {}
  /\ acceptReqs = << >>
  /\ pollReqs = << >>
  /\ intervalShown = 0
  /\ alert = NoAlert
  /\ origin = NoOrigin
  /\ calls = 0
  /\ decisionsSent = [e \in 1..MaxCalls |-> 0]
  /\ confirmedMinutes = << >>
  /\ mounted = TRUE
  /\ armed = TRUE
  /\ timed = TRUE
  /\ elapsed = 0
  /\ sincePoll = 0
  /\ lastRefresh = NoRefresh

NextTimed ==
  \/ loadTicketsOk
  \/ \E t \in Tickets : selectTicket(t)
  \/ handleSuggest
  \/ \E req \in suggestReqs : \E data \in SuggestData : suggestOk(req, data)
  \/ \E req \in suggestReqs : suggestFail(req)
  \/ tick
  \/ pollFire
  \/ \E i \in 1..Len(pollReqs) : \E data \in MetricsData : pollOk(i, data)
  \/ \E i \in 1..Len(pollReqs) : pollFail(i)
  \/ Unmount
  \/ \E req \in suggestReqs : \E ok \in BOOLEAN : suggestSettledUnmounted(req, ok)
  \/ \E i \in 1..Len(pollReqs) : pollSettledUnmounted(i)

SpecTimed == InitTimed /\ [][NextTimed]_vars

\* ------------------------------------------------------------ the dashboard
\* The component holding a snapshot that a longer session has produced, with
\* the polled refreshes going on.
InitDashboard ==
  /\ tickets = {}
  /\ ticketsReq = TRUE
  /\ selectedTicket = NoTicket
  /\ suggestion = Null
  /\ editedReply = ""
  /\ loading = FALSE
  /\ metrics \in [suggestionsShown : ShownSamples, suggestionsAccepted : AcceptedSamples,
                   tagCounts : TagCountSamples, responseTimes : DurationListSamples]
  /\ suggestReqs = {}
  /\ acceptReqs = << >>
  /\ pollReqs = << >>
  /\ intervalShown = metrics.suggestionsShown
  /\ alert = NoAlert
  /\ origin = NoOrigin
  /\ calls = 0
  /\ decisionsSent = [e \in 1..MaxCalls |-> 0]
  /\ confirmedMinutes = << >>
  /\ mounted = TRUE
  /\ armed = TRUE
  /\ timed = FALSE
  /\ elapsed = 0
  /\ sincePoll = 0
  /\ lastRefresh = NoRefresh

NextDashboard ==
  \/ pollFire
  \/ \E i \in 1..Len(pollReqs) : \E data \in DashboardData : pollOk(i, data)
  \/ \E i \in 1..Len(pollReqs) : pollFail(i)

SpecDashboard == InitDashboard /\ [][NextDashboard]_vars

\* ======================================================================
\* Properties
\* ======================================================================

\* C1: a response to a suggestion request issued for ticket T1 that arrives
\* after T2 was selected is ignored, so the suggestion held (and the draft
\* made from it) is always one generated for the ticket now selected.
C1_StaleResponseIgnored ==
  suggestion # Null => origin.ticket = selectedTicket

\* C2: for every Ready episode (one stored suggestion) at most one decision
\* is sent to the backend; a second accept click while the first send is in
\* flight sends nothing.
C2_AtMostOneDecisionPerEpisode ==
  \A e \in 1..MaxCalls : decisionsSent[e] <= 1

\* C3: when the decision send fails, the failure is reported and the session
\* is Idle all the same: the suggestion is discarded and the draft cleared,
\* so the same suggestion cannot be finalized again.
C3_SendFailureEndsIdle ==
  [][\A i \in 1..Len(acceptReqs) :
       acceptPostFail(i) =>
         /\ alert' # NoAlert
         /\ suggestion' = Null
         /\ editedReply' = ""]_vars

\* C4: immediately after any selectTicket call, from Idle, Pending or Ready,
\* the session is Idle: no suggestion, an empty draft, and not pending.
C4_SelectResetsToIdle ==
  [][\A t \in Tickets :
       selectTicket(t) =>
         /\ suggestion' = Null
         /\ editedReply' = ""
         /\ ~loading']_vars

C6_SuggestFailure ==
  [][\A req \in suggestReqs :
       suggestFail(req) =>
         /\ suggestion' = Null
         /\ editedReply' = ""
         /\ ~loading'
         /\ alert' = SuggestAlert
         /\ metrics' = metrics]_vars

\* C6 witness: a second request, made while a suggestion was held, has failed
C6_Witness ==
  /\ alert = SuggestAlert
  /\ suggestReqs = {}
  /\ ~loading
  /\ suggestion = Null
  /\ metrics.suggestionsShown = 1

\* C7: the duration list has one entry per decision send that succeeded; a
\* send that failed appended nothing.
C7_DurationsOnlyOnConfirmedSend ==
  Len(metrics.responseTimes) = Len(confirmedMinutes)

\* C7 witness: of two decisions sent, one send succeeded (its handler awaits
\* the refresh) and the other just failed
C7_Witness ==
  /\ alert \in {AcceptUnchangedAlert, AcceptEditedAlert}
  /\ Len(acceptReqs) = 1
  /\ acceptReqs[1].phase = "get"
  /\ Len(metrics.responseTimes) = 1
  /\ calls = 3

\* C8: the duration of a finalize is one integer in [5, 60], the same in the
\* decision payload and in the duration list: the list is, entry by entry,
\* the response_time_min of the decisions whose send succeeded.
C8_OneDurationPerFinalize ==
  /\ \A i \in 1..Len(metrics.responseTimes) :
       /\ i <= Len(confirmedMinutes)
       /\ metrics.responseTimes[i] = confirmedMinutes[i]
       /\ metrics.responseTimes[i] \in 5..60
  /\ \A i \in 1..Len(acceptReqs) :
       /\ acceptReqs[i].payload.response_time_min = acceptReqs[i].minutes
       /\ acceptReqs[i].minutes \in 5..60

\* C8 witness: both ends of the range have been recorded
C8_Witness ==
  /\ Len(metrics.responseTimes) = 2
  /\ metrics.responseTimes[1] = 5
  /\ metrics.responseTimes[2] = 60

\* C9: a failed metrics refresh, polled or issued after a successful decision
\* send, leaves the snapshot as it was and raises no alert; after the send
\* succeeded the session still becomes Idle.
C9_RefreshFailureSilent ==
  [][/\ \A i \in 1..Len(pollReqs) :
          pollFail(i) => (metrics' = metrics /\ alert' = NoAlert)
     /\ \A i \in 1..Len(acceptReqs) :
          acceptGetFail(i) =>
            /\ metrics' = metrics
            /\ alert' = NoAlert
            /\ suggestion' = Null
            /\ editedReply' = ""]_vars

\* C10: the shown count never decreases, and a refresh response, polled or
\* issued after a finalize, does not change it.
C10_ShownMonotonic ==
  [][/\ metrics'.suggestionsShown >= metrics.suggestionsShown
     /\ \A data \in MetricsData :
          /\ \A i \in 1..Len(pollReqs) :
               pollOk(i, data) => metrics'.suggestionsShown = metrics.suggestionsShown
          /\ \A i \in 1..Len(acceptReqs) :
               acceptGetOk(i, data) => metrics'.suggestionsShown = metrics.suggestionsShown]_vars

\* C10 witness: the refresh after a finalize has replaced the server's fields
\* while a suggestion had been shown
C10_Witness ==
  /\ calls = 2
  /\ metrics.suggestionsShown = 1
  /\ Len(metrics.responseTimes) = 1
  /\ metrics.suggestionsAccepted = 3
  /\ acceptReqs = << >>

\* a step that applies a GET /metrics response, polled or of an accept handler
refreshApplied(data) ==
  \/ \E i \in 1..Len(pollReqs) : pollOk(i, data)
  \/ \E i \in 1..Len(acceptReqs) : acceptGetOk(i, data)

serverFieldsChanged ==
  \/ metrics'.suggestionsAccepted # metrics.suggestionsAccepted
  \/ metrics'.tagCounts # metrics.tagCounts

\* C11 as stated: after every successful refresh the accepted count and the
\* tag mapping are exactly the values of the response, no field of the previous
\* snapshot being kept, and no other client step changes them.
C11_RefreshReplacesWholesale ==
  [][ /\ \A data \in MetricsData : refreshApplied(data) =>
            /\ metrics'.suggestionsAccepted = data.suggestions_accepted
            /\ metrics'.tagCounts = data.tag_counts
      /\ serverFieldsChanged => \E data \in MetricsData : refreshApplied(data) ]_vars

\* C11 amended: after every successful refresh each of the two fields that the
\* response carries is exactly the response's value (the whole tag mapping is
\* replaced, never merged), a field the response does not carry keeps its
\* previous value, and no client step other than a successful refresh changes
\* either field.
C11_RefreshReplacesCarriedFields ==
  [][ /\ \A data \in MetricsData : refreshApplied(data) =>
            /\ metrics'.suggestionsAccepted =
                  IF data.hasAccepted THEN data.suggestions_accepted
                  ELSE metrics.suggestionsAccepted
            /\ metrics'.tagCounts =
                  IF data.hasTagCounts THEN data.tag_counts ELSE metrics.tagCounts
      /\ serverFieldsChanged => \E data \in MetricsData : refreshApplied(data) ]_vars

\* a response carrying both fields has replaced a different, non-empty mapping
C11_Witness ==
  /\ lastRefresh.site # "none"
  /\ lastRefresh.data.hasAccepted
  /\ lastRefresh.data.hasTagCounts
  /\ lastRefresh.before.tagCounts # << >>
  /\ lastRefresh.before.tagCounts # lastRefresh.data.tag_counts
  /\ metrics.tagCounts = lastRefresh.data.tag_counts
  /\ metrics.suggestionsAccepted = lastRefresh.data.suggestions_accepted

\* the last two GET /metrics responses came from the two sites, and the later
\* one was in flight when the earlier one arrived
twoSitesOverlapped ==
  /\ lastRefresh.site # "none"
  /\ lastRefresh.overlap
  /\ lastRefresh.prev.site \notin {"none", lastRefresh.site}

\* no refresh touches the shown count or the list of durations
refreshLeavesLocalFields ==
  lastRefresh.site # "none" =>
    /\ lastRefresh.after.suggestionsShown = lastRefresh.before.suggestionsShown
    /\ lastRefresh.after.responseTimes = lastRefresh.before.responseTimes

\* C12 as stated: when a polled and a post-finalize refresh are in flight at
\* once and both succeed, then in either order of arrival the accepted count
\* and the tag mapping are those of the response that arrived last, and the
\* shown count and the durations are what they were without the refreshes.
C12_LastArrivalWins ==
  /\ twoSitesOverlapped =>
       /\ lastRefresh.after.suggestionsAccepted = lastRefresh.data.suggestions_accepted
       /\ lastRefresh.after.tagCounts = lastRefresh.data.tag_counts
  /\ refreshLeavesLocalFields

\* C12 amended: in the same situation each of the two fields that the response
\* arriving last carries has that response's value, a field it does not carry
\* has the value the snapshot held when it arrived, and the shown count and
\* the durations are what they were without the refreshes.
C12_LastArrivalWinsCarriedFields ==
  /\ twoSitesOverlapped =>
       /\ lastRefresh.after.suggestionsAccepted =
             IF lastRefresh.data.hasAccepted THEN lastRefresh.data.suggestions_accepted
             ELSE lastRefresh.before.suggestionsAccepted
       /\ lastRefresh.after.tagCounts =
             IF lastRefresh.data.hasTagCounts THEN lastRefresh.data.tag_counts
             ELSE lastRefresh.before.tagCounts
  /\ refreshLeavesLocalFields

\* the polled response arrived after the handler's response it was in flight
\* with, and replaced the values that one had set
C12_Witness ==
  /\ twoSitesOverlapped
  /\ lastRefresh.site = "poll"
  /\ lastRefresh.data.hasAccepted
  /\ lastRefresh.before.suggestionsAccepted # lastRefresh.data.suggestions_accepted
  /\ lastRefresh.before.tagCounts # << >>
  /\ metrics = lastRefresh.after

\* C13 as stated: while the component stays mounted a polled refresh is issued
\* in every window of PollInterval seconds, whatever else happens in between:
\* never do more than PollInterval seconds pass since the mount or the last
\* polled refresh.
C13_PollEveryPeriod ==
  mounted => sincePoll <= PollInterval

\* C14: once the component is unmounted the timer is not armed, and no polled
\* refresh is issued in any later step.
C14_NoPollAfterUnmount ==
  /\ [](~mounted => ~armed)
  /\ [][~mounted => Len(pollReqs') <= Len(pollReqs)]_vars

\* more than a period has passed after the unmount, and no poll is in flight
C14_Witness ==
  /\ ~mounted
  /\ sincePoll > PollInterval
  /\ pollReqs = << >>
  /\ calls < MaxCalls

\* the payload of the decision the accept handler called in this step posts
postedPayload == acceptReqs'[Len(acceptReqs')].payload

\* the accept handler suspended at acceptReqs[i] runs to its end in this step
acceptHandlerEnds(i) ==
  \/ acceptPostFail(i)
  \/ acceptGetFail(i)
  \/ \E data \in MetricsData : acceptGetOk(i, data)

\* C15 as stated: accepting unchanged posts a decision with action "accepted",
\* the tags of the stored suggestion as they are and the suggested reply as
\* final_reply, even when the draft was edited; and when the handler has run
\* the session is Idle: no suggestion is held and the draft is empty.
C15_AcceptUnchangedDecision ==
  [][ /\ \A r \in RandomSamples : handleAcceptUnchanged(r) =>
            /\ postedPayload.action = "accepted"
            /\ postedPayload.tags = suggestion.tags
            /\ postedPayload.final_reply = suggestion.suggestion
      /\ \A i \in 1..Len(acceptReqs) :
            (acceptReqs[i].payload.action = "accepted" /\ acceptHandlerEnds(i)) =>
               (suggestion' = Null /\ editedReply' = "") ]_vars

\* C16: accepting the edited reply posts a decision with action "edited" and
\* the current draft as final_reply; the draft is the suggested reply when the
\* suggestion arrives, the typed text after an edit, and changes in no other
\* step while that suggestion is held; an edit leaves the suggestion as it is.
C16_AcceptEditedDecision ==
  [][ /\ \A r \in RandomSamples : handleAcceptEdited(r) =>
            /\ postedPayload.action = "edited"
            /\ postedPayload.final_reply = editedReply
      /\ \A req \in suggestReqs : \A data \in SuggestData :
            suggestOk(req, data) => editedReply' = data.suggestion
      /\ \A text \in DraftTexts : editDraft(text) =>
            (editedReply' = text /\ suggestion' = suggestion)
      /\ ( /\ suggestion # Null
           /\ suggestion' # Null
           /\ origin' = origin
           /\ ~ \E text \in DraftTexts : editDraft(text) ) => editedReply' = editedReply
    ]_vars

\* a decision with the typed text is in flight while the suggestion still
\* holds the suggested reply
C16_Witness ==
  /\ suggestion # Null
  /\ editedReply # suggestion.suggestion
  /\ \E i \in 1..Len(acceptReqs) :
        /\ acceptReqs[i].payload.action = "edited"
        /\ acceptReqs[i].payload.final_reply = editedReply
        /\ acceptReqs[i].payload.final_reply # suggestion.suggestion

\* C17 as stated: the acceptance rate is round(100 * accepted / shown), halves
\* upwards, for every accepted count and every shown count above 0, and 0
\* when the shown count is 0.
C17_AcceptanceRate ==
  acceptanceRate =
    IF metrics.suggestionsShown = 0 THEN 0
    ELSE MathRound(100 * metrics.suggestionsAccepted, metrics.suggestionsShown)

\* the position of a tag in the mapping tc as the response listed it
insertedAt(tc, tag) == CHOOSE i \in 1..Len(tc) : tc[i].tag = tag

\* out lists the n entries of highest count of tc (all, if there are fewer) in
\* descending order of count, entries of equal count in the order of their
\* insertion in tc
highestInOrder(tc, out, n) ==
  /\ Len(out) = (IF Len(tc) < n THEN Len(tc) ELSE n)
  /\ \A p \in 1..Len(out) : \E i \in 1..Len(tc) : out[p] = tc[i]
  /\ \A p, q \in 1..Len(out) : p < q =>
        \/ out[p].count > out[q].count
        \/ /\ out[p].count = out[q].count
           /\ insertedAt(tc, out[p].tag) < insertedAt(tc, out[q].tag)
  /\ \A i \in 1..Len(tc) :
        (\A p \in 1..Len(out) : out[p] # tc[i]) =>
           \A p \in 1..Len(out) : out[p].count >= tc[i].count

\* C18 as stated: the top tags are the TopN entries of highest count in
\* descending order of count, entries of equal count in the order of their
\* insertion in the mapping; for {billing: 5, bug: 5, ui: 2} the first two
\* are billing, then bug.
C18_TopTags ==
  /\ highestInOrder(metrics.tagCounts, topTags, TopN)
  /\ metrics.tagCounts = TagCountsA =>
        highestInOrder(TagCountsA, << TagCountsA[1], TagCountsA[2] >>, 2)
        /\ slice(topTags, 2) = << TagCountsA[1], TagCountsA[2] >>

\* C19: the average duration is the mean of the durations rounded to the
\* nearest integer, halves upwards, for every non-empty list of durations
\* between 5 and 60, and 0 for the empty list.
C19_AverageDuration ==
  LET list == metrics.responseTimes
  IN /\ \A k \in 1..Len(list) : list[k] \in MinMinutes .. MinMinutes + MinutesSpan
     /\ avgResponseTime =
          IF Len(list) = 0 THEN 0 ELSE MathRound(sumOf(list), Len(list))
     /\ Len(list) > 0 =>
          /\ 2 * (avgResponseTime * Len(list) - sumOf(list)) <= Len(list)
          /\ 2 * (sumOf(list) - avgResponseTime * Len(list)) <= Len(list)

\* a list whose mean lies half way between two integers, after a refresh
C19_Witness ==
  /\ metrics.responseTimes = << 5, 6 >>
  /\ avgResponseTime = 6
  /\ lastRefresh.site # "none"

\* the last two GET /metrics responses had the same body and nothing changed
\* the snapshot between them
sameResponseTwice ==
  /\ lastRefresh.site # "none"
  /\ lastRefresh.prev.site # "none"
  /\ lastRefresh.prev.data = lastRefresh.data
  /\ lastRefresh.prev.after = lastRefresh.before

\* C20: a second refresh in a row with the same response as the first leaves
\* the snapshot, the acceptance rate and the top tags as they were after the
\* first.
C20_RefreshIdempotent ==
  sameResponseTwice =>
    /\ lastRefresh.after = lastRefresh.before
    /\ acceptanceRateOf(lastRefresh.after) = acceptanceRateOf(lastRefresh.before)
    /\ topTagsOf(lastRefresh.after) = topTagsOf(lastRefresh.before)

\* the handler's refresh repeated the polled response that had replaced
\* another snapshot
C20_Witness ==
  /\ sameResponseTwice
  /\ lastRefresh.site = "accept"
  /\ lastRefresh.data.hasAccepted
  /\ lastRefresh.data.hasTagCounts
  /\ metrics.suggestionsAccepted = lastRefresh.data.suggestions_accepted
  /\ metrics.tagCounts = lastRefresh.data.tag_counts
  /\ acceptanceRate > 0

\* a POST /suggest is issued in this step
suggestRequestIssued == suggestReqs' \ suggestReqs # {}

\* C21 as stated: a suggestion request is issued only from Idle with a ticket
\* selected; with no selection, while one is pending, or while a suggestion
\* is held, no request is issued and suggestion and draft stay as they are.
C21_SuggestOnlyFromIdle ==
  [][ suggestRequestIssued =>
        /\ selectedTicket # NoTicket
        /\ ~loading
        /\ suggestion = Null ]_vars

\* C21 amended: a suggestion request is issued only with a ticket selected
\* and none pending; issued while a suggestion is held, it discards that
\* suggestion and the draft and makes the session Pending, as from Idle.
C21_SuggestOnlyWhenNotPending ==
  [][ /\ suggestRequestIssued => (selectedTicket # NoTicket /\ ~loading)
      /\ (suggestRequestIssued /\ suggestion # Null) =>
            /\ suggestion' = Null
            /\ editedReply' = ""
            /\ loading'
            /\ \E req \in suggestReqs' \ suggestReqs :
                  req.fromReady /\ req.ticket_id = selectedTicket
      /\ (selectedTicket = NoTicket \/ loading) =>
            (suggestReqs' \subseteq suggestReqs) ]_vars

\* a request issued while a suggestion was held is in flight
C21_Witness ==
  /\ loading
  /\ suggestion = Null
  /\ editedReply = ""
  /\ \E req \in suggestReqs : req.fromReady

\* C22: every metrics refresh request, polled or post-finalize, carries as
\* total_shown the shown-count the snapshot holds when the request is issued,
\* also when suggestion requests resolved since the refresh was scheduled.
C22_RefreshCarriesCurrentShown ==
  [][ /\ pollFire =>
            pollReqs'[Len(pollReqs')].total_shown = metrics.suggestionsShown
      /\ \A i \in 1..Len(acceptReqs) :
            acceptPostOk(i) =>
              acceptReqs[i].shownAtCall = metrics.suggestionsShown ]_vars

\* C23: every Decision sent carries the ticket_id of the request that
\* produced the Suggestion whose tags and reply text it carries, in every
\* interleaving of selectTicket, suggestion responses and finalize.
C23_DecisionTicketMatchesSuggestion ==
  [][ \A r \in RandomSamples :
        (handleAcceptUnchanged(r) \/ handleAcceptEdited(r)) =>
          postedPayload.ticket_id = origin.ticket ]_vars

\* C24: the completion of a finalize discards only the Suggestion it
\* finalized: a Suggestion obtained for a ticket selected while the finalize
\* was in flight, and its Draft, are still held after the finalize completes.
C24_FinalizeClearsOnlyItsSuggestion ==
  [][ \A i \in 1..Len(acceptReqs) : \A data \in MetricsData :
        (/\ acceptGetOk(i, data)
         /\ suggestion # Null
         /\ origin.ep # acceptReqs[i].ep
         /\ origin.ticket = selectedTicket
         /\ origin.ticket # acceptReqs[i].payload.ticket_id) =>
          /\ suggestion' = suggestion
          /\ editedReply' = editedReply ]_vars

\* C25: at most one suggestion request is in flight at any time; while the
\* component is mounted loading is true exactly while a request is
\* outstanding, and no request is issued while loading is true, also after a
\* selectTicket made during a pending request.
C25_OneSuggestRequestInFlight ==
  /\ [](/\ Cardinality(suggestReqs) <= 1
        /\ mounted => (loading <=> suggestReqs # {}))
  /\ [][loading => ~suggestRequestIssued]_vars

\* a request is pending for a ticket other than the one now selected
C25_Witness ==
  /\ mounted
  /\ loading
  /\ \E req \in suggestReqs : req.ticket_id # selectedTicket

\* the backend answers an outstanding POST /suggest, with success or failure
suggestSettles ==
  \E req \in suggestReqs :
    \/ \E data \in SuggestData : suggestOk(req, data)
    \/ suggestOkEmpty(req)
    \/ suggestFail(req)
    \/ \E ok \in BOOLEAN : suggestSettledUnmounted(req, ok)

\* the program under the assumption that every suggestion request is
\* eventually answered
SpecLive == Init /\ [][Next]_vars /\ WF_vars(suggestSettles)

\* the Suggest button is rendered and enabled
canSuggest == selectedTicket # NoTicket /\ ~loading

\* C26: Pending always ends: if every suggestion request is eventually
\* answered, every Pending state of the mounted component is followed by a
\* state in which loading is cleared and a suggestion can be requested again,
\* on the success path and on the failure path (or the component is unmounted).
C26_PendingEnds == (mounted /\ loading) ~> (~mounted \/ canSuggest)

\* Pending has ended on the failure path
C26_Witness ==
  /\ mounted
  /\ canSuggest
  /\ suggestReqs = {}
  /\ alert = SuggestAlert

=============================================================================
